---- MODULE Spec2Model ----
(***************************************************************************)
(* Model of the GeoWebCache exporter (src/src/gwc-exporter.go).           *)
(*                                                                         *)
(* A poll is one call of gwcCollector.Collect: it fetches the status page *)
(* of the target, normalizes the text, runs every extraction pattern on   *)
(* it and sends the metrics it found to the channel ch.                   *)
(*                                                                         *)
(* Text is a sequence of tokens.  Markup, labels, words and timestamps    *)
(* are one token each; the characters of a number (digits, "," and ".")   *)
(* and every whitespace character are one token each, so that character   *)
(* classes such as [0-9,]+ and \s* act on the text as they do in the      *)
(* code.  A float64 is held as a whole number of thousandths (FloatScale).*)
(***************************************************************************)
EXTENDS Integers, Sequences, FiniteSets, TLC

(***************************************************************************)
(* Tokens.                                                                 *)
(***************************************************************************)
Digits == {"0", "1", "2", "3", "4", "5", "6", "7", "8", "9"}

\* the characters \s matches; "&nbsp;" is the entity the normalizer replaces
Space == {" ", "\n", "\t"}

\* tokens that contain the character "<"
Markup == {"<td>", "<td colspan='3'>", "</td>", "<th>", "</th>", "<tr>", "</tr>",
           "<tt>", "</tt>", "</h3>"}

\* tokens <td[^>]*> matches
TdOpen == {"<td>", "<td colspan='3'>"}

\* timestamps of the shape
\* [A-Za-z]{3}, [0-9]{1,2} [A-Za-z]{3} [0-9]{4} [0-9]{2}:[0-9]{2}:[0-9]{2} GMT
StampShaped == {"Tue, 10 Feb 2026 10:00:00 GMT", "Thu, 01 Jan 1970 00:00:00 GMT",
                "Tue, 3 Feb 2026 10:00:00 GMT", "Xyz, 10 Feb 2026 10:00:00 GMT",
                "Mon, 09 Feb 2026 08:30:00 GMT", "Wed, 31 Dec 1969 23:59:59 GMT"}

\* every token of the model's texts
Tokens ==
    Digits \cup {",", "."} \cup Space \cup {"&nbsp;"} \cup Markup \cup StampShaped
    \cup {"(", ")", "/", "/s", "mbps", "%", "of requests", "Mb",
          "seconds", "second", "minutes", "minute", "hours", "hour", "days", "day",
          "fortnights", "second(s) delayed", "All figures are",
          "2026-02-10T10:00:00Z",
          "Welcome to GeoWebCache version", "build", "1.25.0", "abc123",
          "Started:", "Total number of requests:",
          "Total number of untiled WMS requests:", "Total number of bytes:",
          "Cache hit ratio:", "Blank/KML/HTML:", "Peak request rate:",
          "Peak bandwidth:", "Config file:", "Local Storage:",
          "/opt/gwc/geowebcache.xml", "/var/gwc/cache",
          "In", "Memory", "Cache", "Statistics",
          "Internal Cache hit count:", "Internal Cache miss count:",
          "Internal Cache hit ratio:", "Internal Cache miss ratio:",
          "Total number of evicted tiles:", "Cache Memory occupation:",
          "Cache Actual Size/ Total Size :"}

(***************************************************************************)
(* Sequence helpers.                                                       *)
(***************************************************************************)
SetMax(S) == CHOOSE x \in S : \A y \in S : y <= x
SetMin(S) == CHOOSE x \in S : \A y \in S : x <= y

\* the concatenation of a sequence of sequences
RECURSIVE ConcatRange(_, _, _)
ConcatRange(ss, lo, hi) ==
    IF lo > hi THEN <<>>
    ELSE IF lo = hi THEN ss[lo]
    ELSE LET mid == (lo + hi) \div 2
         IN  ConcatRange(ss, lo, mid) \o ConcatRange(ss, mid + 1, hi)
Concat(ss) == ConcatRange(ss, 1, Len(ss))

\* strings.ReplaceAll(s, old, new) for a one-token old and a token sequence new
ReplaceAll(s, old, new) ==
    Concat([i \in 1..Len(s) |-> IF s[i] = old THEN new ELSE <<s[i]>>])

\* strings.TrimSpace
RECURSIVE TrimLeft(_)
TrimLeft(s) == IF s # <<>> /\ Head(s) \in Space THEN TrimLeft(Tail(s)) ELSE s
RECURSIVE TrimRight(_)
TrimRight(s) ==
    IF s # <<>> /\ s[Len(s)] \in Space THEN TrimRight(SubSeq(s, 1, Len(s) - 1)) ELSE s
TrimSpace(s) == TrimRight(TrimLeft(s))

\* strings.Contains(s, sub)
Contains(s, sub) ==
    \E i \in 1..(Len(s) - Len(sub) + 1) : SubSeq(s, i, i + Len(sub) - 1) = sub

(***************************************************************************)
(* Normalize (Collect, lines 177-179).                                     *)
(***************************************************************************)
\* regexp.MustCompile(`\s+`).ReplaceAllString(s, " ")
CollapseSpace(s) ==
    Concat([i \in 1..Len(s) |->
              IF s[i] \notin Space THEN <<s[i]>>
              ELSE IF i > 1 /\ s[i - 1] \in Space THEN <<>>
              ELSE <<" ">>])

Normalize(body) == CollapseSpace(ReplaceAll(body, "&nbsp;", <<" ">>))

(***************************************************************************)
(* Regular expressions.  A pattern is a sequence of elements; an element  *)
(* matches between min and (many ? any number : 1) tokens that are in the *)
(* set toks (neg = FALSE) or not in it (neg = TRUE), as many as the rest  *)
(* of the pattern allows (greedy, leftmost-first), and is a capture group *)
(* when cap holds.                                                         *)
(***************************************************************************)
Elem(toks, neg, min, many, cap) ==
    [toks |-> toks, neg |-> neg, min |-> min, many |-> many, cap |-> cap]

Lit(t) == Elem({t}, FALSE, 1, FALSE, FALSE)         \* a literal
WS == Elem(Space, FALSE, 0, TRUE, FALSE)            \* \s*
Td == Elem(TdOpen, FALSE, 1, FALSE, FALSE)          \* <td[^>]*>
AnyRun == Elem({"\n"}, TRUE, 0, TRUE, FALSE)        \* .*
IntCap == Elem(Digits \cup {","}, FALSE, 1, TRUE, TRUE)    \* ([0-9,]+)
IntRun == Elem(Digits \cup {","}, FALSE, 1, TRUE, FALSE)   \* [0-9,]+
FloatCap == Elem(Digits \cup {"."}, FALSE, 1, TRUE, TRUE)  \* ([0-9.]+)
FloatRun == Elem(Digits \cup {"."}, FALSE, 1, TRUE, FALSE) \* [0-9.]+
NotCap(stop) == Elem(stop, TRUE, 1, TRUE, TRUE)     \* ([^x]+)
OneCap(S) == Elem(S, FALSE, 1, FALSE, TRUE)         \* (a|b|c), one token

\* the longest run of tokens from pos on that the element e accepts
RunLen(e, txt, pos) ==
    LET accepts(i) == i <= Len(txt) /\ ((txt[i] \in e.toks) # e.neg)
    IN  CHOOSE n \in 0..(Len(txt) + 1 - pos) :
            ~accepts(pos + n) /\ \A i \in pos..(pos + n - 1) : accepts(i)

\* the ways the one element e matches at pos, the longest first
ElemMatches(e, txt, pos) ==
    LET run == RunLen(e, txt, pos)
        most == IF e.many THEN run ELSE IF run > 0 THEN 1 ELSE 0
    IN  [i \in 1..(most + 1 - e.min) |->
            LET n == most + 1 - i
            IN  [end |-> pos + n,
                 caps |-> IF e.cap THEN <<SubSeq(txt, pos, pos + n - 1)>> ELSE <<>>]]

\* the ways the elements lo..hi of pat match txt from position pos on, in the
\* order of preference of the regexp package (leftmost-first: an earlier element
\* takes as many tokens as it can before a later one does)
RECURSIVE Matches(_, _, _, _, _)
Matches(pat, txt, lo, hi, pos) ==
    IF lo > hi THEN <<[end |-> pos, caps |-> <<>>]>>
    ELSE IF lo = hi THEN ElemMatches(pat[lo], txt, pos) \o <<>>
    ELSE LET mid == (lo + hi) \div 2
             left == Matches(pat, txt, lo, mid, pos)
         IN  Concat([i \in 1..Len(left) |->
                       LET right == Matches(pat, txt, mid + 1, hi, left[i].end)
                       IN  [j \in 1..Len(right) |->
                               [end |-> right[j].end,
                                caps |-> left[i].caps \o right[j].caps]]])

\* re.FindStringSubmatch(txt): <<>> (nil) when nothing matches, else the
\* leftmost match followed by its capture groups
FindStringSubmatch(pat, txt) ==
    LET first == pat[1]
        opens == {p \in 1..(Len(txt) + 1) :
                     \/ first.min = 0
                     \/ p <= Len(txt) /\ ((txt[p] \in first.toks) # first.neg)}
        starts == {p \in opens : Matches(pat, txt, 1, Len(pat), p) # <<>>}
    IN  IF starts = {} THEN <<>>
        ELSE LET p == SetMin(starts)
                 m == Matches(pat, txt, 1, Len(pat), p)[1]
             IN  <<SubSeq(txt, p, m.end - 1)>> \o m.caps

(***************************************************************************)
(* Conversions.                                                            *)
(***************************************************************************)
DigitValue(c) == CHOOSE v \in 0..9 : <<"0", "1", "2", "3", "4", "5", "6", "7", "8", "9">>[v + 1] = c

\* the scale of the fixed-point image of a float64: 1.5 is held as 1500
FloatScale == 1000

Strip(s, c) == ReplaceAll(s, c, <<>>)

RECURSIVE DropZeros(_)
DropZeros(s) == IF s # <<>> /\ Head(s) = "0" THEN DropZeros(Tail(s)) ELSE s

RECURSIVE DigitsValue(_)
DigitsValue(s) ==
    IF s = <<>> THEN 0 ELSE 10 * DigitsValue(SubSeq(s, 1, Len(s) - 1)) + DigitValue(s[Len(s)])

\* the digits of math.MaxInt64
Int64Max == <<"9", "2", "2", "3", "3", "7", "2", "0", "3", "6", "8", "5", "4", "7", "7",
              "5", "8", "0", "7">>

\* a > b for digit sequences of the same length
RECURSIVE DigitsGreater(_, _)
DigitsGreater(a, b) ==
    IF a = <<>> THEN FALSE
    ELSE IF Head(a) # Head(b) THEN DigitValue(Head(a)) > DigitValue(Head(b))
    ELSE DigitsGreater(Tail(a), Tail(b))

\* strconv.ParseInt(s, 10, 64) of an unsigned text
ParseInt(s) ==
    IF s = <<>> \/ \E i \in 1..Len(s) : s[i] \notin Digits
    THEN [err |-> TRUE, v |-> 0]
    ELSE LET sig == DropZeros(s)
         IN  IF Len(sig) > Len(Int64Max)
                \/ (Len(sig) = Len(Int64Max) /\ DigitsGreater(sig, Int64Max))
             THEN [err |-> TRUE, v |-> 0]
             ELSE [err |-> FALSE, v |-> DigitsValue(sig)]

\* a conversion that leaves the grouping commas in the text
toIntWithCommas(s) ==
    LET r == ParseInt(s)
    IN  IF r.err THEN -1 ELSE r.v

\* toInt: strconv.ParseInt of the text without its commas, -1 on an error
toInt(s) ==
    LET r == ParseInt(Strip(s, ","))
    IN  IF r.err THEN -1 ELSE r.v

\* the first three decimals of a fraction, as thousandths
Thousandths(frac) ==
    DigitsValue(SubSeq(frac \o <<"0", "0", "0">>, 1, 3))

\* strconv.ParseFloat(s, 64) of a text of digits and points
ParseFloat(s) ==
    LET points == {i \in 1..Len(s) : s[i] = "."}
    IN  IF \/ \E i \in 1..Len(s) : s[i] \notin Digits \cup {"."}
           \/ Cardinality(points) > 1
           \/ Len(s) - Cardinality(points) = 0
        THEN [err |-> TRUE, v |-> 0]
        ELSE LET dot == IF points = {} THEN Len(s) + 1 ELSE SetMin(points)
                 whole == SubSeq(s, 1, dot - 1)
                 frac == SubSeq(s, dot + 1, Len(s))
             IN  [err |-> FALSE,
                  v |-> FloatScale * DigitsValue(whole) + Thousandths(frac)]

toFloat(s) ==
    LET r == ParseFloat(Strip(s, ","))
    IN  IF r.err THEN -1 * FloatScale ELSE r.v

\* a conversion that rounds to the nearest integer
Int64Rounded(f) == (f + (FloatScale \div 2)) \div FloatScale

\* int64(f) of a float64 held as thousandths: truncation toward zero
Int64Of(f) == IF f >= 0 THEN f \div FloatScale ELSE -((-f) \div FloatScale)

\* time.Parse(time.RFC1123, s) followed by t.Unix(): the layout wants a known
\* weekday and month and a two-digit day
ParseRFC1123(s) ==
    IF s = <<"Tue, 10 Feb 2026 10:00:00 GMT">> THEN [err |-> FALSE, unix |-> 1770717600]
    ELSE IF s = <<"Mon, 09 Feb 2026 08:30:00 GMT">> THEN [err |-> FALSE, unix |-> 1770625800]
    ELSE IF s = <<"Thu, 01 Jan 1970 00:00:00 GMT">> THEN [err |-> FALSE, unix |-> 0]
    ELSE IF s = <<"Wed, 31 Dec 1969 23:59:59 GMT">> THEN [err |-> FALSE, unix |-> -1]
    ELSE [err |-> TRUE, unix |-> 0]

(***************************************************************************)
(* The patterns of Collect and of the parse helpers.                       *)
(***************************************************************************)
\* label:\s*</th>\s*<td[^>]*>\s*   (the cell layout of the runtime table)
Cell(label) == <<Lit(label), WS, Lit("</th>"), WS, Td, WS>>

\* label:</td><td[^>]*>\s*   (the cell layout of the in-memory cache table)
MemCell(label) == <<Lit(label), Lit("</td>"), Td, WS>>

reVersionBuild ==
    <<Lit("Welcome to GeoWebCache version"), Lit(" "), NotCap({","}), Lit(","),
      Lit(" "), Lit("build"), Lit(" "), NotCap(Markup)>>

reCell == Cell("Started:") \o <<OneCap(StampShaped)>>
rePlain == <<Lit("Started:"), WS, OneCap(StampShaped)>>

Units == {"seconds", "second", "minutes", "minute", "hours", "hour", "days", "day"}
reUptime == <<Lit("Started:"), AnyRun, Lit("("), FloatCap, WS, OneCap(Units), Lit(")")>>

reRequestsTotal == Cell("Total number of requests:") \o <<IntCap>>
reRequestsRate ==
    Cell("Total number of requests:")
    \o <<IntRun, WS, Lit("("), WS, FloatCap, WS, Lit("/s"), WS, Lit(")"), WS, Lit("</td>")>>
reUntiledTotal == Cell("Total number of untiled WMS requests:") \o <<IntCap>>
reUntiledRate ==
    Cell("Total number of untiled WMS requests:")
    \o <<IntRun, WS, Lit("("), WS, FloatCap, WS, Lit("/s"), WS, Lit(")"), WS, Lit("</td>")>>
reBytesTotal == Cell("Total number of bytes:") \o <<IntCap>>
reBandwidth ==
    Cell("Total number of bytes:") \o <<IntRun, WS, Lit("("), WS, FloatCap, WS, Lit("mbps")>>
reCacheHitRatio ==
    Cell("Cache hit ratio:") \o <<FloatCap, Lit("%"), Lit(" "), Lit("of requests")>>
reBlankRatio ==
    Cell("Blank/KML/HTML:") \o <<FloatCap, Lit("%"), Lit(" "), Lit("of requests")>>
rePeakRate == Cell("Peak request rate:") \o <<FloatCap, WS, Lit("/s")>>
rePeakRateTime ==
    Cell("Peak request rate:")
    \o <<FloatRun, WS, Lit("/s"), WS, Lit("("), NotCap({")"}), Lit(")")>>
rePeakBandwidth == Cell("Peak bandwidth:") \o <<FloatCap, WS, Lit("mbps")>>
rePeakBandwidthTime ==
    Cell("Peak bandwidth:")
    \o <<FloatRun, WS, Lit("mbps"), WS, Lit("("), NotCap({")"}), Lit(")")>>
reStatsDelay ==
    <<Lit("All figures are"), Lit(" "), FloatCap, WS, Lit("second(s) delayed")>>

\* the three windows, as text and as the label value of their metrics
intervals == <<"3 seconds", "15 seconds", "60 seconds">>
\* the tokens of a window label
IntervalText(win) ==
    CASE win = "3 seconds" -> <<"3", " ", "seconds">>
      [] win = "15 seconds" -> <<"1", "5", " ", "seconds">>
      [] win = "60 seconds" -> <<"6", "0", " ", "seconds">>
      [] win = "30 seconds" -> <<"3", "0", " ", "seconds">>

\* <tr>\s*<td>\s*%s\s*</td>\s*<td[^>]*>\s*([0-9,]+)\s*</td>\s*<td[^>]*>\s*([0-9.]+)\s*/s
\* \s*</td>\s*<td[^>]*>\s*([0-9,]+)\s*</td>\s*<td[^>]*>\s*([0-9.]+)\s*mbps
IntervalCells ==
    <<WS, Lit("</td>"), WS, Td, WS, IntCap, WS, Lit("</td>"), WS, Td, WS, FloatCap, WS,
      Lit("/s"), WS, Lit("</td>"), WS, Td, WS, IntCap, WS, Lit("</td>"), WS, Td, WS,
      FloatCap, WS, Lit("mbps")>>

\* a pattern that takes the row of any window for the row of win
reAnyInterval(win) ==
    <<Lit("<tr>"), WS, Lit("<td>"), WS, IntRun, WS, Lit("seconds")>> \o IntervalCells

reInterval(win) ==
    <<Lit("<tr>"), WS, Lit("<td>"), WS>>
    \o [i \in 1..Len(IntervalText(win)) |-> Lit(IntervalText(win)[i])]
    \o IntervalCells

reConfigFile == Cell("Config file:") \o <<Lit("<tt>"), NotCap(Markup)>>
reLocalStorage == Cell("Local Storage:") \o <<Lit("<tt>"), NotCap(Markup)>>

MemcacheMarker == <<"In", " ", "Memory", " ", "Cache", " ", "Statistics">>

reMemRequests == MemCell("Total number of requests:") \o <<IntCap>>
reMemHits == MemCell("Internal Cache hit count:") \o <<IntCap>>
reMemMisses == MemCell("Internal Cache miss count:") \o <<IntCap>>
reMemHitRatio == MemCell("Internal Cache hit ratio:") \o <<FloatCap, WS, Lit("%")>>
reMemMissRatio == MemCell("Internal Cache miss ratio:") \o <<FloatCap, WS, Lit("%")>>
reMemEvicted == MemCell("Total number of evicted tiles:") \o <<IntCap>>
reMemOccupation == MemCell("Cache Memory occupation:") \o <<FloatCap, WS, Lit("%")>>

reSizesSameCell ==
    <<Lit("Cache Actual Size/ Total Size :"), WS, FloatCap, WS, Lit("/"), WS, FloatCap, WS,
      Lit(" "), Lit("Mb")>>
reSizesNextCell ==
    <<Lit("Cache Actual Size/ Total Size :"), WS, Lit("</td>"), WS, Td, WS, FloatCap, WS,
      Lit("/"), WS, FloatCap, WS, Lit("Mb")>>

(***************************************************************************)
(* The parse helpers.                                                      *)
(***************************************************************************)
parseVersionBuild(html) ==
    LET m == FindStringSubmatch(reVersionBuild, html)
    IN  IF Len(m) = 3 THEN <<TrimSpace(m[2]), TrimSpace(m[3])>> ELSE <<<<>>, <<>>>>

\* a parse that tries the cell layout only
parseStartedCellOnly(html) ==
    LET m1 == FindStringSubmatch(reCell, html)
    IN  IF Len(m1) = 2 /\ ~ParseRFC1123(m1[2]).err THEN ParseRFC1123(m1[2]).unix ELSE 0

parseStartedUnix(html) ==
    LET m1 == FindStringSubmatch(reCell, html)
        m2 == FindStringSubmatch(rePlain, html)
    IN  IF Len(m1) = 2 /\ ~ParseRFC1123(m1[2]).err THEN ParseRFC1123(m1[2]).unix
        ELSE IF Len(m2) = 2 /\ ~ParseRFC1123(m2[2]).err THEN ParseRFC1123(m2[2]).unix
        ELSE 0

parseRFC1123InParens(html, pattern) ==
    LET m == FindStringSubmatch(pattern, html)
    IN  IF Len(m) < 2 THEN 0
        ELSE IF ParseRFC1123(TrimSpace(m[2])).err THEN 0
        ELSE ParseRFC1123(TrimSpace(m[2])).unix

\* strings.HasPrefix(unit, prefix) for the unit words
HasPrefix(unit, prefix) ==
    \/ prefix = "second" /\ unit \in {"second", "seconds"}
    \/ prefix = "minute" /\ unit \in {"minute", "minutes"}
    \/ prefix = "hour" /\ unit \in {"hour", "hours"}
    \/ prefix = "day" /\ unit \in {"day", "days"}

parseUptimeSeconds(html) ==
    LET m == FindStringSubmatch(reUptime, html)
    IN  IF Len(m) # 3 THEN 0
        ELSE LET val == toFloat(m[2])
                 unit == m[3][1]
             IN  IF HasPrefix(unit, "second") THEN Int64Of(val)
                 ELSE IF HasPrefix(unit, "minute") THEN Int64Of(val * 60)
                 ELSE IF HasPrefix(unit, "hour") THEN Int64Of(val * 3600)
                 ELSE IF HasPrefix(unit, "day") THEN Int64Of(val * 86400)
                 ELSE 0

parseSizesMB(html) ==
    LET m1 == FindStringSubmatch(reSizesSameCell, html)
        m2 == FindStringSubmatch(reSizesNextCell, html)
    IN  IF Len(m1) = 3 THEN <<toFloat(m1[2]), toFloat(m1[3])>>
        ELSE IF Len(m2) = 3 THEN <<toFloat(m2[2]), toFloat(m2[3])>>
        ELSE <<-1 * FloatScale, -1 * FloatScale>>

parseFirstString(html, pattern) ==
    LET m == FindStringSubmatch(pattern, html)
    IN  IF Len(m) >= 2 THEN TrimSpace(m[2]) ELSE <<>>

parseFirstNumber(html, pattern) ==
    LET m == FindStringSubmatch(pattern, html)
    IN  IF Len(m) < 2 THEN -1 ELSE toInt(m[2])

parseFirstFloat(html, pattern) ==
    LET m == FindStringSubmatch(pattern, html)
    IN  IF Len(m) < 2 THEN -1 * FloatScale ELSE toFloat(m[2])

(***************************************************************************)
(* The metrics a poll sends (Collect, lines 181-317).  A metric is its    *)
(* descriptor's name, its label values and its value.  The value of a     *)
(* series read with toFloat is in thousandths; counts, timestamps, byte   *)
(* sizes and the constants 0 and 1 are whole numbers.                      *)
(***************************************************************************)
Metric(desc, value, labels) == [desc |-> desc, value |-> value, labels |-> labels]

\* a send that lost its condition: a default goes out when there is no value
SendAlways(cond, desc, value, labels) ==
    <<Metric(desc, IF cond THEN value ELSE 0, labels)>>

\* if cond { ch <- prometheus.MustNewConstMetric(desc, _, value, labels...) }
SendIf(cond, desc, value, labels) ==
    IF cond THEN <<Metric(desc, value, labels)>> ELSE <<>>

\* a send of a count that takes zero for no value
SendNumberPositive(html, pattern, desc) ==
    LET v == parseFirstNumber(html, pattern) IN SendIf(v > 0, desc, v, <<>>)

\* if v := parseFirstNumber(html, pattern); v >= 0 { ch <- ... float64(v) }
SendNumber(html, pattern, desc) ==
    LET v == parseFirstNumber(html, pattern) IN SendIf(v >= 0, desc, v, <<>>)

\* if v := parseFirstFloat(html, pattern); v >= 0 { ch <- ... v }
SendFloat(html, pattern, desc) ==
    LET v == parseFirstFloat(html, pattern) IN SendIf(v >= 0, desc, v, <<>>)

\* if ts := parseRFC1123InParens(html, pattern); ts > 0 { ch <- ... float64(ts) }
SendStamp(html, pattern, desc) ==
    LET ts == parseRFC1123InParens(html, pattern) IN SendIf(ts > 0, desc, ts, <<>>)

\* lines 184-187
SendVersionBuild(html) ==
    LET vb == parseVersionBuild(html)
    IN  SendIf(vb[1] # <<>> \/ vb[2] # <<>>, "gwc_build_info", 1, vb)

\* lines 189-195
SendStarted(html) ==
    LET ts == parseStartedUnix(html) IN SendIf(ts > 0, "gwc_started_seconds", ts, <<>>)
SendUptime(html) ==
    LET up == parseUptimeSeconds(html) IN SendIf(up > 0, "gwc_uptime_seconds", up, <<>>)

\* lines 245-265, one turn of the loop
SendInterval(html, win) ==
    LET m == FindStringSubmatch(reInterval(win), html)
    IN  IF Len(m) = 5
        THEN LET reqs == toInt(m[2])
                 rate == toFloat(m[3])
                 bytes == toInt(m[4])
                 mbps == toFloat(m[5])
             IN  SendIf(reqs >= 0, "gwc_interval_requests", reqs, <<win>>)
                 \o SendIf(rate >= 0, "gwc_interval_rate_per_second", rate, <<win>>)
                 \o SendIf(bytes >= 0, "gwc_interval_bytes", bytes, <<win>>)
                 \o SendIf(mbps >= 0, "gwc_interval_bandwidth_mbps", mbps, <<win>>)
        ELSE <<>>

\* lines 267-272
SendStorage(html) ==
    LET configFile == parseFirstString(html, reConfigFile)
        localStorage == parseFirstString(html, reLocalStorage)
    IN  SendIf(configFile # <<>> \/ localStorage # <<>>, "gwc_storage_info", 1,
               <<configFile, localStorage>>)

\* a send of the sizes that takes each of the two by itself
SendSizesEach(html) ==
    LET sz == parseSizesMB(html)
    IN  SendIf(sz[1] >= 0, "gwc_memcache_actual_size_bytes", sz[1] * FloatScale, <<>>)
        \o SendIf(sz[2] >= 0, "gwc_memcache_total_size_bytes", sz[2] * FloatScale, <<>>)

\* lines 300-304
SendSizes(html) ==
    LET sz == parseSizesMB(html)
    IN  IF sz[1] >= 0 /\ sz[2] >= 0
        THEN <<Metric("gwc_memcache_actual_size_bytes", sz[1] * FloatScale, <<>>),
               Metric("gwc_memcache_total_size_bytes", sz[2] * FloatScale, <<>>)>>
        ELSE <<>>

\* the nine series of the in-memory cache block, in the order of the code
MemcacheSeries ==
    <<"gwc_memcache_requests_total", "gwc_memcache_hit_count_total",
      "gwc_memcache_miss_count_total", "gwc_memcache_hit_ratio_percent",
      "gwc_memcache_miss_ratio_percent", "gwc_memcache_evicted_tiles_total",
      "gwc_memcache_occupation_percent", "gwc_memcache_actual_size_bytes",
      "gwc_memcache_total_size_bytes">>

\* lines 276-304: the section exists
SendMemcachePresent(html) ==
    <<<<Metric("gwc_memcache_present", 1, <<>>)>>,
      SendNumber(html, reMemRequests, "gwc_memcache_requests_total"),
      SendNumber(html, reMemHits, "gwc_memcache_hit_count_total"),
      SendNumber(html, reMemMisses, "gwc_memcache_miss_count_total"),
      SendFloat(html, reMemHitRatio, "gwc_memcache_hit_ratio_percent"),
      SendFloat(html, reMemMissRatio, "gwc_memcache_miss_ratio_percent"),
      SendNumber(html, reMemEvicted, "gwc_memcache_evicted_tiles_total"),
      SendFloat(html, reMemOccupation, "gwc_memcache_occupation_percent"),
      SendSizes(html)>>

\* the else branch without the nine zero sends of lines 308-316
SendPresentOnly == <<<<Metric("gwc_memcache_present", 0, <<>>)>>>>

\* lines 305-317: the section does not exist
SendMemcacheAbsent ==
    <<<<Metric("gwc_memcache_present", 0, <<>>)>>,
      [i \in 1..Len(MemcacheSeries) |-> Metric(MemcacheSeries[i], 0, <<>>)]>>

\* lines 274-317
SendMemcache(html) ==
    IF Contains(html, MemcacheMarker) THEN SendMemcachePresent(html) ELSE SendMemcacheAbsent

\* lines 184-272: what each statement sends, in the order of the code
SendRuntime(html) ==
    <<SendVersionBuild(html),
      SendStarted(html),
      SendUptime(html),
      SendNumber(html, reRequestsTotal, "gwc_requests_total"),
      SendFloat(html, reRequestsRate, "gwc_requests_rate_per_second"),
      SendNumber(html, reUntiledTotal, "gwc_untiled_wms_requests_total"),
      SendFloat(html, reUntiledRate, "gwc_untiled_wms_requests_rate_per_second"),
      SendNumber(html, reBytesTotal, "gwc_bytes_total"),
      SendFloat(html, reBandwidth, "gwc_bandwidth_mbps"),
      SendFloat(html, reCacheHitRatio, "gwc_cache_hit_ratio_percent"),
      SendFloat(html, reBlankRatio, "gwc_blank_kml_html_ratio_percent"),
      SendFloat(html, rePeakRate, "gwc_peak_request_rate_per_second"),
      SendStamp(html, rePeakRateTime, "gwc_peak_request_rate_timestamp_seconds"),
      SendFloat(html, rePeakBandwidth, "gwc_peak_bandwidth_mbps"),
      SendStamp(html, rePeakBandwidthTime, "gwc_peak_bandwidth_timestamp_seconds"),
      SendFloat(html, reStatsDelay, "gwc_stats_delay_seconds")>>
    \o [i \in 1..Len(intervals) |-> SendInterval(html, intervals[i])]
    \o <<SendStorage(html)>>

\* a run that returns at the first statement that sends nothing
RECURSIVE RunUntilEmpty(_)
RunUntilEmpty(statements) ==
    IF statements = <<>> \/ Head(statements) = <<>> THEN <<>>
    ELSE Head(statements) \o RunUntilEmpty(Tail(statements))

\* the statements of lines 181-317 run one after the other, each whatever the
\* ones before it sent
RunAll(statements) == Concat(statements)

\* an extraction that sends the window rows twice
ExtractTwice(html) ==
    <<Metric("gwc_up", 1, <<>>)>> \o RunAll(SendRuntime(html) \o SendMemcache(html))
    \o RunAll([i \in 1..Len(intervals) |-> SendInterval(html, intervals[i])])

\* lines 181-317: everything a poll sends once the page is fetched and normalized
Extract(html) ==
    <<Metric("gwc_up", 1, <<>>)>> \o RunAll(SendRuntime(html) \o SendMemcache(html))

\* a failure path that also keeps the cache-block indicator
DownWithPresent == <<Metric("gwc_up", 0, <<>>), Metric("gwc_memcache_present", 0, <<>>)>>

\* lines 152, 158, 165, 172: everything a poll sends when the fetch failed
Down == <<Metric("gwc_up", 0, <<>>)>>

(***************************************************************************)
(* Status pages: the texts the target is made to serve.                    *)
(***************************************************************************)
\* a row of the runtime table: <tr><th>label</th><td colspan='3'>value</td></tr>
ThRow(label, value) ==
    <<"<tr>", "<th>", label, "</th>", "<td colspan='3'>">> \o value \o <<"</td>", "</tr>", "\n">>

\* a row of the in-memory cache table: <tr><td>label</td><td>value</td></tr>
TdRow(label, value) ==
    <<"<tr>", "<td>", label, "</td>", "<td>">> \o value \o <<"</td>", "</tr>", "\n">>

\* a row of the interval table
WinRow(win, reqs, rate, bytes, mbps) ==
    <<"<tr>", "<td>">> \o IntervalText(win) \o <<"</td>", "<td>">> \o reqs
    \o <<"</td>", "<td>">> \o rate \o <<" ", "/s", "</td>", "<td>">> \o bytes
    \o <<"</td>", "<td>">> \o mbps \o <<" ", "mbps", "</td>", "</tr>", "\n">>

SegVersion ==
    <<"Welcome to GeoWebCache version", " ", "1.25.0", ",", " ", "build", " ", "abc123",
      "</h3>", "\n">>
SegStarted ==
    ThRow("Started:", <<"Tue, 10 Feb 2026 10:00:00 GMT", " ", "(", "2", ".", "5", " ",
                        "hours", ")">>)
SegRequests ==
    ThRow("Total number of requests:",
          <<"1", "2", ",", "3", "4", "5", " ", "(", "1", ".", "4", "/s", " ", ")", " ">>)
SegUntiled ==
    ThRow("Total number of untiled WMS requests:",
          <<"7", " ", "(", "0", ".", "0", "/s", " ", ")", " ">>)
SegBytes ==
    ThRow("Total number of bytes:",
          <<"9", "8", ",", "7", "6", "5", " ", "(", "0", ".", "2", " ", "mbps", ")">>)
SegHitRatio ==
    ThRow("Cache hit ratio:", <<"9", "3", ".", "5", "%", " ", "of requests">>)
SegBlank ==
    ThRow("Blank/KML/HTML:", <<"0", ".", "0", "%", " ", "of requests">>)
SegPeakRate ==
    ThRow("Peak request rate:",
          <<"5", ".", "0", " ", "/s", " ", "(", "Mon, 09 Feb 2026 08:30:00 GMT", ")">>)
SegPeakBandwidth ==
    ThRow("Peak bandwidth:",
          <<"0", ".", "7", "5", " ", "mbps", " ", "(", "Tue, 10 Feb 2026 10:00:00 GMT", ")">>)
SegDelay ==
    <<"All figures are", " ", "3", ".", "0", " ", "second(s) delayed", "\n">>
SegWin3 == WinRow("3 seconds", <<"4">>, <<"1", ".", "3">>, <<"2", "0", "0">>, <<"0", ".", "5">>)
SegWin15 == WinRow("15 seconds", <<"1", "9">>, <<"1", ".", "2">>, <<"9", "0", "0">>, <<"0", ".", "4">>)
SegWin60 == WinRow("60 seconds", <<"8", "0">>, <<"1", ".", "1">>, <<"1", ",", "0", "0", "0">>, <<"0", ".", "1">>)
SegConfig == ThRow("Config file:", <<"<tt>", "/opt/gwc/geowebcache.xml", "</tt>">>)
SegLocal == ThRow("Local Storage:", <<"<tt>", "/var/gwc/cache", "</tt>">>)
SegMarker == <<"In", " ", "Memory", "&nbsp;", "Cache", "\n", "Statistics", "</h3>", "\n">>
SegMemRequests == TdRow("Total number of requests:", <<"6", "0">>)
SegMemHits == TdRow("Internal Cache hit count:", <<"4", "5">>)
SegMemMisses == TdRow("Internal Cache miss count:", <<"1", "5">>)
SegMemHitRatio == TdRow("Internal Cache hit ratio:", <<"7", "5", ".", "0", " ", "%">>)
SegMemMissRatio == TdRow("Internal Cache miss ratio:", <<"2", "5", ".", "0", " ", "%">>)
SegMemEvicted == TdRow("Total number of evicted tiles:", <<"0">>)
SegMemOccupation == TdRow("Cache Memory occupation:", <<"7", "8", ".", "1", " ", "%">>)
SegMemSizes ==
    TdRow("Cache Actual Size/ Total Size :",
          <<"1", "2", ".", "5", " ", "/", " ", "1", "6", ".", "0", " ", "Mb">>)

RuntimeTable ==
    SegVersion \o SegStarted \o SegRequests \o SegUntiled \o SegBytes \o SegHitRatio
    \o SegBlank \o SegPeakRate \o SegPeakBandwidth \o SegDelay \o SegWin3 \o SegWin15
    \o SegWin60 \o SegConfig \o SegLocal
MemcacheTable ==
    SegMarker \o SegMemRequests \o SegMemHits \o SegMemMisses \o SegMemHitRatio
    \o SegMemMissRatio \o SegMemEvicted \o SegMemOccupation \o SegMemSizes

\* the page of a target with the in-memory cache enabled
FullPage == RuntimeTable \o MemcacheTable

(***************************************************************************)
(* The polls.  Every poll is one call of Collect on the one collector.     *)
(***************************************************************************)
\* the number of polls, any of which may run at the same time
NumPolls == 2
Polls == 1..NumPolls

\* target URLs: one that http.NewRequestWithContext accepts and one it rejects
GoodURL == "http://127.0.0.1:8080/geowebcache"
BadURL == "http://[::1"
URLs == {GoodURL, BadURL}

\* the status codes the target answers with
Statuses == {200, 503}

\* a text with a bad count in front of a good row
SegBadRequests == ThRow("Total number of requests:", <<",", " ">>)

\* the pages the target serves to concurrent polls
Pages ==
    {<<>>,
     SegRequests \o SegWin3,
     SegBadRequests \o SegWin3,
     SegStarted \o SegMarker \o SegMemHits}

\* the text of a variable that is not declared yet
Undeclared == <<"undeclared">>

VARIABLES
    collector,  \* the gwcCollector: targetURL and timeout (the descriptors are fixed)
    pc,         \* pc[p]: where poll p is in Collect
    expired,    \* expired[p]: the deadline of poll p's context has passed
    gets,       \* gets[p]: the calls of http.DefaultClient.Do poll p made
    status,     \* status[p]: resp.StatusCode
    body,       \* body[p]: the text io.ReadAll returned
    html,       \* html[p]: the normalized text
    logged,     \* logged[p]: the cause poll p wrote to the log
    ch          \* ch[p]: the metrics poll p sent, in order

vars == <<collector, pc, expired, gets, status, body, html, logged, ch>>

\* newGwcCollector (lines 62-105) and the state before any poll
Init ==
    /\ collector \in [targetURL : URLs, timeout : {5}]
    /\ pc = [p \in Polls |-> "idle"]
    /\ expired = [p \in Polls |-> FALSE]
    /\ gets = [p \in Polls |-> 0]
    /\ status = [p \in Polls |-> 0]
    /\ body = [p \in Polls |-> Undeclared]
    /\ html = [p \in Polls |-> Undeclared]
    /\ logged = [p \in Polls |-> "nothing"]
    /\ ch = [p \in Polls |-> <<>>]

\* log.Printf(cause); ch <- up 0; return (the deferred cancel stops the timer)
Fail(p, cause) ==
    /\ logged' = [logged EXCEPT ![p] = cause]
    /\ ch' = [ch EXCEPT ![p] = Down]
    /\ pc' = [pc EXCEPT ![p] = "failed"]
    /\ expired' = [expired EXCEPT ![p] = FALSE]

\* a scrape calls Collect; lines 146-147: the context and its timer
StartPoll(p) ==
    /\ pc[p] = "idle"
    /\ pc' = [pc EXCEPT ![p] = "newreq"]
    /\ UNCHANGED <<collector, expired, gets, status, body, html, logged, ch>>

\* the timer of the context fires
DeadlineExpires(p) ==
    /\ pc[p] \in {"newreq", "do", "await", "status", "read", "normalize", "emit"}
    /\ ~expired[p]
    /\ expired' = [expired EXCEPT ![p] = TRUE]
    /\ UNCHANGED <<collector, pc, gets, status, body, html, logged, ch>>

\* lines 149-154
NewRequest(p) ==
    /\ pc[p] = "newreq"
    /\ IF collector.targetURL = BadURL
       THEN Fail(p, "cannot create request")
       ELSE /\ pc' = [pc EXCEPT ![p] = "do"]
            /\ UNCHANGED <<expired, logged, ch>>
    /\ UNCHANGED <<collector, gets, status, body, html>>

\* line 155: the call of http.DefaultClient.Do, which then waits for the target
Do(p) ==
    /\ pc[p] = "do"
    /\ pc' = [pc EXCEPT ![p] = "await"]
    /\ gets' = [gets EXCEPT ![p] = gets[p] + 1]
    /\ UNCHANGED <<collector, expired, status, body, html, logged, ch>>

\* line 155: the target answers with a status line and headers
DoResponse(p) ==
    /\ pc[p] = "await"
    /\ ~expired[p]
    /\ \E s \in Statuses : status' = [status EXCEPT ![p] = s]
    /\ pc' = [pc EXCEPT ![p] = "status"]
    /\ UNCHANGED <<collector, expired, gets, body, html, logged, ch>>

\* a client that sends the request again after a connection failure
DoTransportErrorRetry(p) ==
    /\ pc[p] = "await"
    /\ ~expired[p]
    /\ pc' = [pc EXCEPT ![p] = "do"]
    /\ UNCHANGED <<collector, expired, gets, status, body, html, logged, ch>>

\* lines 155-160: the connection fails
DoTransportError(p) ==
    /\ pc[p] = "await"
    /\ ~expired[p]
    /\ Fail(p, "request failed")
    /\ UNCHANGED <<collector, gets, status, body, html>>

\* a request built without the context: the cancellation never reaches Do
DoWithoutContext(p) ==
    /\ pc[p] = "await"
    /\ expired[p]
    /\ FALSE
    /\ UNCHANGED vars

\* lines 155-160: the context is cancelled while Do waits
DoTimeout(p) ==
    /\ pc[p] = "await"
    /\ expired[p]
    /\ Fail(p, "request failed: deadline exceeded")
    /\ UNCHANGED <<collector, gets, status, body, html>>

\* lines 163-167
CheckStatus(p) ==
    /\ pc[p] = "status"
    /\ IF status[p] # 200
       THEN Fail(p, "non-200 response")
       ELSE /\ pc' = [pc EXCEPT ![p] = "read"]
            /\ UNCHANGED <<expired, logged, ch>>
    /\ UNCHANGED <<collector, gets, status, body, html>>

\* lines 169, 175: io.ReadAll returns the whole body
ReadBody(p) ==
    /\ pc[p] = "read"
    /\ ~expired[p]
    /\ \E page \in Pages : body' = [body EXCEPT ![p] = page]
    /\ pc' = [pc EXCEPT ![p] = "normalize"]
    /\ UNCHANGED <<collector, expired, gets, status, html, logged, ch>>

\* lines 169-174: the body breaks off
ReadError(p) ==
    /\ pc[p] = "read"
    /\ ~expired[p]
    /\ Fail(p, "cannot read response body")
    /\ UNCHANGED <<collector, gets, status, body, html>>

\* lines 169-174: the context is cancelled while io.ReadAll waits
ReadTimeout(p) ==
    /\ pc[p] = "read"
    /\ expired[p]
    /\ Fail(p, "cannot read response body: deadline exceeded")
    /\ UNCHANGED <<collector, gets, status, body, html>>

\* a normalized text kept in one place for all polls
NormalizeShared(p) ==
    /\ pc[p] = "normalize"
    /\ html' = [q \in Polls |-> Normalize(body[p])]
    /\ pc' = [pc EXCEPT ![p] = "emit"]
    /\ UNCHANGED <<collector, expired, gets, status, body, logged, ch>>

\* lines 177-179
NormalizeBody(p) ==
    /\ pc[p] = "normalize"
    /\ html' = [html EXCEPT ![p] = Normalize(body[p])]
    /\ pc' = [pc EXCEPT ![p] = "emit"]
    /\ UNCHANGED <<collector, expired, gets, status, body, logged, ch>>

\* a collector that keeps what the polls before have sent and sends it again
SendMetricsKept(p) ==
    /\ pc[p] = "emit"
    /\ ch' = [ch EXCEPT ![p] = Extract(html[p])
                               \o Concat([q \in Polls |-> IF pc[q] = "built" THEN Tail(ch[q])
                                                         ELSE <<>>])]
    /\ pc' = [pc EXCEPT ![p] = "built"]
    /\ expired' = [expired EXCEPT ![p] = FALSE]
    /\ UNCHANGED <<collector, gets, status, body, html, logged>>

\* lines 181-318
SendMetrics(p) ==
    /\ pc[p] = "emit"
    /\ ch' = [ch EXCEPT ![p] = Extract(html[p])]
    /\ pc' = [pc EXCEPT ![p] = "built"]
    /\ expired' = [expired EXCEPT ![p] = FALSE]
    /\ UNCHANGED <<collector, gets, status, body, html, logged>>

Next ==
    \E p \in Polls :
        \/ StartPoll(p)
        \/ DeadlineExpires(p)
        \/ NewRequest(p)
        \/ Do(p)
        \/ DoResponse(p)
        \/ DoTransportError(p)
        \/ DoTimeout(p)
        \/ CheckStatus(p)
        \/ ReadBody(p)
        \/ ReadError(p)
        \/ ReadTimeout(p)
        \/ NormalizeBody(p)
        \/ SendMetrics(p)

Spec == Init /\ [][Next]_vars

(***************************************************************************)
(* Describe (lines 107-143): the descriptors of the collector.             *)
(***************************************************************************)
Describe ==
    <<"gwc_up", "gwc_started_seconds", "gwc_uptime_seconds", "gwc_requests_total",
      "gwc_requests_rate_per_second", "gwc_untiled_wms_requests_total",
      "gwc_untiled_wms_requests_rate_per_second", "gwc_bytes_total", "gwc_bandwidth_mbps",
      "gwc_cache_hit_ratio_percent", "gwc_blank_kml_html_ratio_percent",
      "gwc_peak_request_rate_per_second", "gwc_peak_request_rate_timestamp_seconds",
      "gwc_peak_bandwidth_mbps", "gwc_peak_bandwidth_timestamp_seconds",
      "gwc_stats_delay_seconds", "gwc_interval_requests", "gwc_interval_rate_per_second",
      "gwc_interval_bytes", "gwc_interval_bandwidth_mbps", "gwc_storage_info",
      "gwc_memcache_present">>
    \o MemcacheSeries \o <<"gwc_build_info">>

\* the descriptors with the label "window" (lines 85-88)
IntervalDescs ==
    {"gwc_interval_requests", "gwc_interval_rate_per_second", "gwc_interval_bytes",
     "gwc_interval_bandwidth_mbps"}

\* the steps of the fetch that the goroutine running Collect takes by itself
FetchStep(p) ==
    \/ NewRequest(p)
    \/ Do(p)
    \/ DoTimeout(p)
    \/ CheckStatus(p)
    \/ ReadTimeout(p)

\* the steps NormalizeBody(p) and SendMetrics(p), told by pc alone
BuildStep(p) ==
    \/ pc[p] = "normalize" /\ pc'[p] = "emit"
    \/ pc[p] = "emit" /\ pc'[p] = "built"

\* The goroutine of a started poll keeps running and the timer of its context
\* fires; nothing is assumed of the target: it may never answer (DoResponse,
\* DoTransportError) and never finish the body (ReadBody, ReadError).  The last
\* conjunct is weak fairness of NormalizeBody(p) \/ SendMetrics(p), with ENABLED
\* written out as the guards of the two actions.
FairSpec ==
    /\ Spec
    /\ \A p \in Polls :
           /\ WF_vars(FetchStep(p))
           /\ WF_vars(DeadlineExpires(p))
           /\ []<>(pc[p] \notin {"normalize", "emit"}) \/ []<><<BuildStep(p)>>_vars

(***************************************************************************)
(* Specifications of the builder alone: one poll that has fetched a text   *)
(* of a family, and then normalizes it and sends its metrics.              *)
(***************************************************************************)
\* the longest sequence of segments a text of a family is made of
MaxSegs == 2

\* the texts made of at most MaxSegs segments of segs, in any order
RECURSIVE TextsOf(_, _)
TextsOf(segs, n) ==
    IF n = 0 THEN {<<>>}
    ELSE LET shorter == TextsOf(segs, n - 1)
         IN  shorter \cup {t \o sg : t \in shorter, sg \in segs}

\* poll 1 has read the body of a 200 response, the other polls have not started
InitFetched(bodies) ==
    /\ collector = [targetURL |-> GoodURL, timeout |-> 5]
    /\ pc = [p \in Polls |-> IF p = 1 THEN "normalize" ELSE "idle"]
    /\ expired = [p \in Polls |-> FALSE]
    /\ gets = [p \in Polls |-> IF p = 1 THEN 1 ELSE 0]
    /\ status = [p \in Polls |-> IF p = 1 THEN 200 ELSE 0]
    /\ body \in {[p \in Polls |-> IF p = 1 THEN b ELSE Undeclared] : b \in bodies}
    /\ html = [p \in Polls |-> Undeclared]
    /\ logged = [p \in Polls |-> "nothing"]
    /\ ch = [p \in Polls |-> <<>>]

NextBuild == NormalizeBody(1) \/ SendMetrics(1)

\* segments of the in-memory cache block, well formed and not
SegMarkerPlain == <<"In", " ", "Memory", " ", "Cache", " ", "Statistics", "</h3>">>
SegMarkerBroken == <<"In", " ", "Memory", " ", "Statistics", "</h3>">>
SegMemBadMisses == TdRow("Internal Cache miss count:", <<",">>)
SegMemBadRatio == TdRow("Internal Cache hit ratio:", <<"7", ".", "5", ".", "1", " ", "%">>)
SegMemSizesNextCell ==
    <<"<tr>", "<td>", "Cache Actual Size/ Total Size :", "</td>", "<td>", "2", ".", "5",
      "/", "4", "Mb", "</td>", "</tr>">>
SegMemBadSizes ==
    TdRow("Cache Actual Size/ Total Size :", <<"1", ".", "2", ".", "3", " ", "/", " ", "4", " ", "Mb">>)

CacheSegs ==
    {SegMarker, SegMarkerPlain, SegMarkerBroken, SegMemRequests, SegMemHits,
     SegMemBadMisses, SegMemHitRatio, SegMemBadRatio, SegMemEvicted, SegMemSizes,
     SegMemSizesNextCell, SegMemBadSizes, SegRequests, SegStarted, SegWin3}

CacheTexts == TextsOf(CacheSegs, MaxSegs) \cup {FullPage, MemcacheTable}

InitCache == InitFetched(CacheTexts)
SpecCache == InitCache /\ [][NextBuild]_vars

\* The interval table.  A cell of a row is a text with the number it stands for
\* (a rate in thousandths), or -1 when the text is no number.
CountCells ==
    <<[text |-> <<"4">>, value |-> 4],
      [text |-> <<"1", ",", "0", "0", "0">>, value |-> 1000],
      [text |-> <<"0">>, value |-> 0],
      [text |-> <<",">>, value |-> -1]>>
RateCells ==
    <<[text |-> <<"1", ".", "3">>, value |-> 1300],
      [text |-> <<"0">>, value |-> 0],
      [text |-> <<"1", ".", ".", "3">>, value |-> -1]>>

\* the labels of the rows: the three windows of the collector and one it does not know
RowLabels == {"3 seconds", "15 seconds", "60 seconds", "30 seconds"}

WindowRows ==
    [win : RowLabels, reqs : 1..Len(CountCells), rate : 1..Len(RateCells),
     bytes : {2, 4}, mbps : {1, 3}]

RowText(r) ==
    <<"<tr>", "<td>">> \o IntervalText(r.win) \o <<"</td>", "<td>">> \o CountCells[r.reqs].text
    \o <<"</td>", "<td>">> \o RateCells[r.rate].text \o <<" ", "/s", "</td>", "<td>">>
    \o CountCells[r.bytes].text \o <<"</td>", "<td>">> \o RateCells[r.mbps].text
    \o <<" ", "mbps", "</td>", "</tr>", "\n">>

\* the rows that tables of two rows are made of
PairRows ==
    [win : {"3 seconds", "15 seconds", "30 seconds"}, reqs : {1, 2}, rate : {1}, bytes : {2},
     mbps : {1, 2}]

\* one row, or two rows of different labels
WindowTables ==
    {<<r>> : r \in WindowRows}
    \cup {t \in {<<r1, r2>> : r1, r2 \in PairRows} : t[1].win # t[2].win}

TableText(rows) == Concat([i \in 1..Len(rows) |-> RowText(rows[i])])
WindowTexts == {TableText(rows) : rows \in WindowTables}

InitWindows == InitFetched(WindowTexts)
SpecWindows == InitWindows /\ [][NextBuild]_vars

\* The "Started:" row.  A magnitude is a text with the number it stands for in
\* thousandths (-1: no number); a unit word comes with its seconds (0: no unit
\* the collector knows).  The magnitudes are dyadic, so that the products of the
\* float64 arithmetic are exact.
Magnitudes ==
    {[text |-> <<"2">>, milli |-> 2000], [text |-> <<"1", ".", "5">>, milli |-> 1500],
     [text |-> <<"0", ".", "5">>, milli |-> 500], [text |-> <<"0">>, milli |-> 0],
     [text |-> <<"2", ".", "2", "5">>, milli |-> 2250], [text |-> <<"1", "0">>, milli |-> 10000],
     [text |-> <<"1", ".", "5", ".", "2">>, milli |-> -1]}
UnitWords ==
    {[word |-> "second", secs |-> 1], [word |-> "seconds", secs |-> 1],
     [word |-> "minute", secs |-> 60], [word |-> "minutes", secs |-> 60],
     [word |-> "hour", secs |-> 3600], [word |-> "hours", secs |-> 3600],
     [word |-> "day", secs |-> 86400], [word |-> "days", secs |-> 86400],
     [word |-> "fortnights", secs |-> 0], [word |-> "weeks", secs |-> 0]}

UptimeText(mag, unit, gap) ==
    ThRow("Started:", <<"Tue, 10 Feb 2026 10:00:00 GMT", " ", "(">> \o mag.text \o gap
                      \o <<unit.word, ")">>)
UptimeTexts == {UptimeText(mag, unit, gap) : mag \in Magnitudes, unit \in UnitWords,
                                             gap \in {<<>>, <<" ">>}}

InitUptime == InitFetched(UptimeTexts)
SpecUptime == InitUptime /\ [][NextBuild]_vars

\* The integer fields of the runtime table.  A count is the text of the value
\* with the number it stands for once its commas are removed, or -1 when what is
\* left is no integer of 64 bits.
GroupedCounts ==
    {[text |-> <<"1", "2", ",", "3", "4", "5">>, value |-> 12345],
     [text |-> <<"1", ",", "0", "0", "0", ",", "0", "0", "0">>, value |-> 1000000],
     [text |-> <<"7">>, value |-> 7],
     [text |-> <<"0">>, value |-> 0],
     [text |-> <<"0", "0", "7">>, value |-> 7],
     [text |-> <<",", "5">>, value |-> 5],
     [text |-> <<"1", ",", ",", "2">>, value |-> 12],
     [text |-> <<",">>, value |-> -1],
     [text |-> <<",", ",", ",">>, value |-> -1],
     [text |-> <<"9", ",", "2", "2", "3", ",", "3", "7", "2", ",", "0", "3", "6", ",", "8", "5",
                 "4", ",", "7", "7", "5", ",", "8", "0", "8">>, value |-> -1],
     [text |-> <<"1", "8", "4", "4", "6", "7", "4", "4", "0", "7", "3", "7", "0", "9", "5", "5",
                 "1", "6", "1", "6">>, value |-> -1]}

\* the labels of the integer fields with their series
IntegerFields ==
    {[label |-> "Total number of requests:", desc |-> "gwc_requests_total"],
     [label |-> "Total number of untiled WMS requests:",
      desc |-> "gwc_untiled_wms_requests_total"],
     [label |-> "Total number of bytes:", desc |-> "gwc_bytes_total"]}

\* the value in the cell after the header cell of the label, or right after the label
Layouts == {"cell", "plain"}
CountText(field, layout, count) ==
    IF layout = "cell" THEN ThRow(field.label, count.text)
    ELSE <<field.label, " ">> \o count.text \o <<"\n">>
CountTexts ==
    {CountText(field, layout, count) :
        field \in IntegerFields, layout \in Layouts, count \in GroupedCounts}

InitCounts == InitFetched(CountTexts)
SpecCounts == InitCounts /\ [][NextBuild]_vars

\* The "Started:" timestamp.  A stamp is a text of the shape the two patterns
\* capture, with whether it is a time of the layout RFC1123 and its Unix seconds;
\* "none" stands for a layout that the text does not have.
Stamps ==
    {[text |-> "Tue, 10 Feb 2026 10:00:00 GMT", istime |-> TRUE, unix |-> 1770717600],
     [text |-> "Mon, 09 Feb 2026 08:30:00 GMT", istime |-> TRUE, unix |-> 1770625800],
     [text |-> "Thu, 01 Jan 1970 00:00:00 GMT", istime |-> TRUE, unix |-> 0],
     [text |-> "Tue, 3 Feb 2026 10:00:00 GMT", istime |-> FALSE, unix |-> 0],
     [text |-> "Xyz, 10 Feb 2026 10:00:00 GMT", istime |-> FALSE, unix |-> 0]}
NoStamp == [text |-> "none", istime |-> FALSE, unix |-> 0]

\* the tight layout: label, closing header cell, opening data cell, timestamp
Tight(stamp) == IF stamp = NoStamp THEN <<>> ELSE ThRow("Started:", <<stamp.text>>)
\* the loose layout: the label directly followed by the timestamp
Loose(stamp) == IF stamp = NoStamp THEN <<>> ELSE <<"Started:", " ", stamp.text, "\n">>

StartedText(tight, loose, tightFirst) ==
    IF tightFirst THEN Tight(tight) \o Loose(loose) ELSE Loose(loose) \o Tight(tight)
StartedTexts ==
    {StartedText(tight, loose, tightFirst) :
        tight \in Stamps \cup {NoStamp}, loose \in Stamps \cup {NoStamp},
        tightFirst \in BOOLEAN}

InitStarted == InitFetched(StartedTexts)
SpecStarted == InitStarted /\ [][NextBuild]_vars

\* Texts with two occurrences of a field: two rows of an integer field, or the
\* "Started:" row with its duration and a later row with another duration in
\* parentheses.  A duration is its text with the seconds it stands for.
TwiceCounts == {c \in GroupedCounts : c.value \in {12345, 0, 5} \/ c.text = <<",">>}
Durations ==
    {[text |-> <<"2", " ", "hours">>, secs |-> 7200],
     [text |-> <<"1", ".", "5", " ", "minutes">>, secs |-> 90],
     [text |-> <<"1", "0", " ", "seconds">>, secs |-> 10],
     [text |-> <<"3", " ", "days">>, secs |-> 259200]}

CountTwice(field, first, second) ==
    ThRow(field.label, first.text) \o ThRow(field.label, second.text)
DurationTwice(first, second) ==
    ThRow("Started:", <<"Tue, 10 Feb 2026 10:00:00 GMT", " ", "(">> \o first.text \o <<")">>)
    \o ThRow("Config reloaded:", <<"Mon, 09 Feb 2026 08:30:00 GMT", " ", "(">> \o second.text
                                 \o <<")">>)
TwiceTexts ==
    {CountTwice(field, first, second) :
        field \in IntegerFields, first \in TwiceCounts, second \in TwiceCounts}
    \cup {DurationTwice(first, second) : first \in Durations, second \in Durations}

InitTwice == InitFetched(TwiceTexts)
SpecTwice == InitTwice /\ [][NextBuild]_vars

\* Texts of one field whose value is zero, more than zero, or no number.  A field
\* is its series with the tokens that stand before and after its value; a number
\* is its text with its value (thousandths for the fields read as floats), -1 for
\* a text that is no number.
ThField(desc, label, pre, post) ==
    [desc |-> desc,
     before |-> <<"<tr>", "<th>", label, "</th>", "<td colspan='3'>">> \o pre,
     after |-> post \o <<"</td>", "</tr>", "\n">>]
TdField(desc, label, post) ==
    [desc |-> desc,
     before |-> SegMarker \o <<"<tr>", "<td>", label, "</td>", "<td>">>,
     after |-> post \o <<"</td>", "</tr>", "\n">>]

CountFields ==
    {ThField("gwc_requests_total", "Total number of requests:", <<>>, <<>>),
     ThField("gwc_untiled_wms_requests_total", "Total number of untiled WMS requests:",
             <<>>, <<>>),
     ThField("gwc_bytes_total", "Total number of bytes:", <<>>, <<>>),
     TdField("gwc_memcache_requests_total", "Total number of requests:", <<>>),
     TdField("gwc_memcache_hit_count_total", "Internal Cache hit count:", <<>>),
     TdField("gwc_memcache_miss_count_total", "Internal Cache miss count:", <<>>),
     TdField("gwc_memcache_evicted_tiles_total", "Total number of evicted tiles:", <<>>)}
FloatFields ==
    {ThField("gwc_requests_rate_per_second", "Total number of requests:",
             <<"5", " ", "(", " ">>, <<"/s", " ", ")", " ">>),
     ThField("gwc_untiled_wms_requests_rate_per_second",
             "Total number of untiled WMS requests:",
             <<"5", " ", "(">>, <<" ", "/s", ")">>),
     ThField("gwc_bandwidth_mbps", "Total number of bytes:",
             <<"5", " ", "(">>, <<" ", "mbps", ")">>),
     ThField("gwc_cache_hit_ratio_percent", "Cache hit ratio:", <<>>,
             <<"%", " ", "of requests">>),
     ThField("gwc_blank_kml_html_ratio_percent", "Blank/KML/HTML:", <<>>,
             <<"%", " ", "of requests">>),
     ThField("gwc_peak_request_rate_per_second", "Peak request rate:", <<>>, <<" ", "/s">>),
     ThField("gwc_peak_bandwidth_mbps", "Peak bandwidth:", <<>>, <<" ", "mbps">>),
     [desc |-> "gwc_stats_delay_seconds", before |-> <<"All figures are", " ">>,
      after |-> <<" ", "second(s) delayed", "\n">>],
     TdField("gwc_memcache_hit_ratio_percent", "Internal Cache hit ratio:", <<" ", "%">>),
     TdField("gwc_memcache_miss_ratio_percent", "Internal Cache miss ratio:", <<" ", "%">>),
     TdField("gwc_memcache_occupation_percent", "Cache Memory occupation:", <<" ", "%">>)}
StampFields ==
    {ThField("gwc_started_seconds", "Started:", <<>>, <<>>),
     ThField("gwc_peak_request_rate_timestamp_seconds", "Peak request rate:",
             <<"5", ".", "0", " ", "/s", " ", "(">>, <<")">>),
     ThField("gwc_peak_bandwidth_timestamp_seconds", "Peak bandwidth:",
             <<"0", ".", "7", "5", " ", "mbps", " ", "(">>, <<")">>)}

ZeroCounts ==
    {[text |-> <<"0">>, value |-> 0], [text |-> <<"0", "0">>, value |-> 0],
     [text |-> <<"0", ",", "0", "0", "0">>, value |-> 0], [text |-> <<"7">>, value |-> 7],
     [text |-> <<",">>, value |-> -1]}
ZeroFloats ==
    {[text |-> <<"0">>, value |-> 0], [text |-> <<"0", ".", "0">>, value |-> 0],
     [text |-> <<".", "0">>, value |-> 0], [text |-> <<"0", ".", "0", "0", "0">>, value |-> 0],
     [text |-> <<"1", ".", "5">>, value |-> 1500], [text |-> <<".">>, value |-> -1],
     [text |-> <<"1", ".", "2", ".", "3">>, value |-> -1]}
EarlyStamps ==
    Stamps \cup {[text |-> "Wed, 31 Dec 1969 23:59:59 GMT", istime |-> TRUE, unix |-> -1]}
ShortMagnitudes == {mag \in Magnitudes : mag.milli \in {-1, 0, 500, 1500, 2000}}
ShortUnits == {unit \in UnitWords : unit.word \in {"second", "seconds", "hours"}}

FieldText(field, number) == field.before \o number.text \o field.after
StampText(field, stamp) == field.before \o <<stamp.text>> \o field.after

\* the four cells of a window at zero, and the two sizes of the cache at zero
ZeroWindow == WinRow("15 seconds", <<"0">>, <<"0", ".", "0">>, <<"0">>, <<"0">>)
ZeroSizes ==
    SegMarker \o TdRow("Cache Actual Size/ Total Size :",
                       <<"0", " ", "/", " ", "0", ".", "0", " ", "Mb">>)

ZeroTexts ==
    {FieldText(field, number) : field \in CountFields, number \in ZeroCounts}
    \cup {FieldText(field, number) : field \in FloatFields, number \in ZeroFloats}
    \cup {StampText(field, stamp) : field \in StampFields, stamp \in EarlyStamps}
    \cup {UptimeText(mag, unit, <<" ">>) : mag \in ShortMagnitudes, unit \in ShortUnits}
    \cup {ZeroWindow, ZeroSizes}

InitZero == InitFetched(ZeroTexts)
SpecZero == InitZero /\ [][NextBuild]_vars

\* Texts of the in-memory cache block with the two sizes: in the cell of the label
\* ("same"), in the cell after it ("next"), or in both, with or without a space
\* before "Mb".  A size is its text in megabytes with its thousandths, -1 for a
\* text that is no number.
Megabytes ==
    {[text |-> <<"1", "2", ".", "5">>, milli |-> 12500], [text |-> <<"1", "6">>, milli |-> 16000],
     [text |-> <<"0">>, milli |-> 0], [text |-> <<".", "5">>, milli |-> 500],
     [text |-> <<"1", ".", "2", ".", "3">>, milli |-> -1], [text |-> <<".">>, milli |-> -1]}
Gaps == {<<>>, <<" ">>}

SizePair(actual, total, gap) ==
    actual.text \o <<" ", "/", " ">> \o total.text \o gap \o <<"Mb">>
SameCell(actual, total, gap) ==
    <<"<tr>", "<td>", "Cache Actual Size/ Total Size :", " ">> \o SizePair(actual, total, gap)
    \o <<"</td>", "</tr>", "\n">>
NextCell(actual, total, gap) ==
    TdRow("Cache Actual Size/ Total Size :", SizePair(actual, total, gap))

\* the sizes that stand in both layouts
BothSizes == {m \in Megabytes : m.milli \in {12500, 0, -1}}
SizeTexts ==
    {SegMarker \o SameCell(actual, total, gap) :
        actual \in Megabytes, total \in Megabytes, gap \in Gaps}
    \cup {SegMarker \o NextCell(actual, total, gap) :
        actual \in Megabytes, total \in Megabytes, gap \in Gaps}
    \cup {SegMarker \o SameCell(same, same, gap) \o NextCell(next, next, <<" ">>) :
        same \in BothSizes, next \in BothSizes, gap \in Gaps}
    \cup {SegMarker \o NextCell(next, next, <<" ">>) \o SameCell(same, same, gap) :
        same \in BothSizes, next \in BothSizes, gap \in Gaps}
    \cup {SegMarker, SegMarker \o SegMemRequests}

InitSizes == InitFetched(SizeTexts)
SpecSizes == InitSizes /\ [][NextBuild]_vars

(***************************************************************************)
(* Views of what a poll sent.                                              *)
(***************************************************************************)
\* a series: the descriptor and, for the interval descriptors, the window
SeriesOf(m) == <<m.desc, IF m.desc \in IntervalDescs THEN m.labels[1] ELSE "">>

\* the series every snapshot is to have
Catalog ==
    {<<Describe[i], "">> : i \in {j \in 1..Len(Describe) : Describe[j] \notin IntervalDescs}}
    \cup {<<d, intervals[i]>> : d \in IntervalDescs, i \in 1..Len(intervals)}

Sent(out) == {SeriesOf(out[i]) : i \in 1..Len(out)}
ValuesOf(out, series) == {out[i].value : i \in {j \in 1..Len(out) : SeriesOf(out[j]) = series}}
TimesSent(out, series) == Cardinality({i \in 1..Len(out) : SeriesOf(out[i]) = series})

InText(txt, tok) == \E i \in 1..Len(txt) : txt[i] = tok

\* the labels a series is read after
LabelsOf(desc) ==
    CASE desc \in {"gwc_started_seconds", "gwc_uptime_seconds"} -> {"Started:"}
      [] desc \in {"gwc_requests_total", "gwc_requests_rate_per_second",
                   "gwc_memcache_requests_total"} -> {"Total number of requests:"}
      [] desc \in {"gwc_untiled_wms_requests_total",
                   "gwc_untiled_wms_requests_rate_per_second"} ->
             {"Total number of untiled WMS requests:"}
      [] desc \in {"gwc_bytes_total", "gwc_bandwidth_mbps"} -> {"Total number of bytes:"}
      [] desc = "gwc_cache_hit_ratio_percent" -> {"Cache hit ratio:"}
      [] desc = "gwc_blank_kml_html_ratio_percent" -> {"Blank/KML/HTML:"}
      [] desc \in {"gwc_peak_request_rate_per_second",
                   "gwc_peak_request_rate_timestamp_seconds"} -> {"Peak request rate:"}
      [] desc \in {"gwc_peak_bandwidth_mbps",
                   "gwc_peak_bandwidth_timestamp_seconds"} -> {"Peak bandwidth:"}
      [] desc = "gwc_stats_delay_seconds" -> {"All figures are"}
      [] desc \in IntervalDescs -> {"seconds"}
      [] desc = "gwc_storage_info" -> {"Config file:", "Local Storage:"}
      [] desc = "gwc_build_info" -> {"Welcome to GeoWebCache version"}
      [] desc = "gwc_memcache_hit_count_total" -> {"Internal Cache hit count:"}
      [] desc = "gwc_memcache_miss_count_total" -> {"Internal Cache miss count:"}
      [] desc = "gwc_memcache_hit_ratio_percent" -> {"Internal Cache hit ratio:"}
      [] desc = "gwc_memcache_miss_ratio_percent" -> {"Internal Cache miss ratio:"}
      [] desc = "gwc_memcache_evicted_tiles_total" -> {"Total number of evicted tiles:"}
      [] desc = "gwc_memcache_occupation_percent" -> {"Cache Memory occupation:"}
      [] desc \in {"gwc_memcache_actual_size_bytes", "gwc_memcache_total_size_bytes"} ->
             {"Cache Actual Size/ Total Size :"}
      [] OTHER -> {}

MemcacheSet == {<<MemcacheSeries[i], "">> : i \in 1..Len(MemcacheSeries)}
AlwaysSent == {<<"gwc_up", "">>, <<"gwc_memcache_present", "">>}
HasMarker(txt) == Contains(txt, MemcacheMarker)

Built(p) == pc[p] = "built"
Failed(p) == pc[p] = "failed"

C4_NeverPartial ==
    \A p \in Polls : Built(p) => MemcacheSet \subseteq Sent(ch[p])

(***************************************************************************)
(* C2.  Liveness short-circuit.                                            *)
(***************************************************************************)
\* C2: a poll whose fetch failed, whatever the cause, has sent the single metric
\* liveness = 0 and nothing else, and no text was normalized for it.
C2_LivenessShortCircuit ==
    \A p \in Polls :
        /\ Failed(p) =>
               /\ ch[p] = <<Metric("gwc_up", 0, <<>>)>>
               /\ html[p] = Undeclared
               /\ logged[p] \in {"cannot create request", "request failed",
                                 "request failed: deadline exceeded", "non-200 response",
                                 "cannot read response body",
                                 "cannot read response body: deadline exceeded"}
        /\ logged[p] # "nothing" => Failed(p)

\* two polls failed for different causes, one of them the timeout, and sent the same
C2_Witness ==
    \E p, q \in Polls :
        /\ Failed(p) /\ logged[p] = "request failed: deadline exceeded"
        /\ Failed(q) /\ logged[q] = "non-200 response"
        /\ ch[p] = ch[q]

(***************************************************************************)
(* C5.  Per-poll state machine.                                            *)
(***************************************************************************)
Phase(p) ==
    CASE pc[p] = "idle" -> "Idle"
      [] pc[p] \in {"newreq", "do", "await", "status", "read"} -> "Fetching"
      [] pc[p] = "normalize" -> "Fetched"
      [] pc[p] = "emit" -> "Extracting"
      [] pc[p] = "failed" -> "Failed"
      [] pc[p] = "built" -> "Built"

PhaseMoves ==
    {<<"Idle", "Fetching">>, <<"Fetching", "Failed">>, <<"Fetching", "Fetched">>,
     <<"Fetched", "Extracting">>, <<"Extracting", "Built">>}

\* the moves of the phases only, no terminal state left, no GET after the first
MovesAlong(p) ==
    /\ Phase(p)' # Phase(p) => <<Phase(p), Phase(p)'>> \in PhaseMoves
    /\ Phase(p) \in {"Failed", "Built"} =>
           pc'[p] = pc[p] /\ ch'[p] = ch[p] /\ gets'[p] = gets[p]
    /\ gets'[p] \in {gets[p], gets[p] + 1}
    /\ gets'[p] <= 1

Alone(outcome, text) ==
    CASE outcome = "built" -> Extract(Normalize(text))
      [] outcome = "failed" -> <<Metric("gwc_up", 0, <<>>)>>
      [] OTHER -> <<>>

\* C6: in every interleaving of the polls each poll's output is the one it sends
\* alone for its own fetch outcome and body, and the collector (target URL,
\* timeout) is never written after construction.
C6_PollsIndependent ==
    /\ [](\A p \in Polls : ch[p] = Alone(pc[p], body[p]))
    /\ [][collector' = collector]_vars

\* a poll has sent its metrics while another, with another body, is about to
C6_Witness ==
    \E p, q \in Polls :
        /\ Built(p) /\ pc[q] = "emit"
        /\ body[p] # body[q]
        /\ Alone("built", body[p]) # Alone("built", body[q])

(***************************************************************************)
(* C7.  Field independence.                                                *)
(***************************************************************************)
\* the series each statement of lines 184-272 sends, in the order of SendRuntime
StatementSeries ==
    [i \in 1..16 |->
        {<<d, "">> : d \in {<<"gwc_build_info", "gwc_started_seconds", "gwc_uptime_seconds",
                              "gwc_requests_total", "gwc_requests_rate_per_second",
                              "gwc_untiled_wms_requests_total",
                              "gwc_untiled_wms_requests_rate_per_second", "gwc_bytes_total",
                              "gwc_bandwidth_mbps", "gwc_cache_hit_ratio_percent",
                              "gwc_blank_kml_html_ratio_percent",
                              "gwc_peak_request_rate_per_second",
                              "gwc_peak_request_rate_timestamp_seconds",
                              "gwc_peak_bandwidth_mbps",
                              "gwc_peak_bandwidth_timestamp_seconds",
                              "gwc_stats_delay_seconds">>[i]}}]
    \o [i \in 1..Len(intervals) |-> {<<d, intervals[i]>> : d \in IntervalDescs}]
    \o <<{<<"gwc_storage_info", "">>}>>

\* value and labels of what an output has of a series
ReportOf(out, series) ==
    {<<out[i].value, out[i].labels>> : i \in {j \in 1..Len(out) : SeriesOf(out[j]) = series}}

C8_BoundedFetch ==
    /\ \A p \in Polls : (pc[p] # "idle") ~> (Failed(p) \/ Built(p))
    /\ [][\A p \in Polls :
              expired[p] /\ pc[p] \in {"await", "read"} /\ pc'[p] # pc[p] =>
                  Failed(p)' /\ ch'[p] = <<Metric("gwc_up", 0, <<>>)>>]_vars

\* the body never came to its end and the poll ended at the timeout
C8_Witness ==
    \E p \in Polls :
        /\ Failed(p)
        /\ logged[p] = "cannot read response body: deadline exceeded"
        /\ status[p] = 200
        /\ ch[p] = <<Metric("gwc_up", 0, <<>>)>>

(***************************************************************************)
(* C9.  Window independence.                                               *)
(***************************************************************************)
\* what a table has to yield of a series of a window: the number of the cell of
\* the row of that window, nothing when there is no such row or no number
CellOf(r, d) ==
    CASE d = "gwc_interval_requests" -> CountCells[r.reqs].value
      [] d = "gwc_interval_rate_per_second" -> RateCells[r.rate].value
      [] d = "gwc_interval_bytes" -> CountCells[r.bytes].value
      [] d = "gwc_interval_bandwidth_mbps" -> RateCells[r.mbps].value
YieldOf(rows, d, win) ==
    {CellOf(rows[i], d) : i \in {j \in 1..Len(rows) : rows[j].win = win}} \ {-1}

\* C9: a text with the row of only one window (or the rows of two) yields, for a
\* window with a row, the sub-values of that row under the label of that window,
\* all four when the four cells are numbers, and nothing, no zeros, for a window
\* without a row; no value of a row goes out under the label of another window.
C9_WindowIndependence ==
    \A p \in Polls :
        Built(p) =>
            \A rows \in WindowTables :
                body[p] = TableText(rows) =>
                    /\ \A d \in IntervalDescs, i \in 1..Len(intervals) :
                           /\ ValuesOf(ch[p], <<d, intervals[i]>>) = YieldOf(rows, d, intervals[i])
                           /\ TimesSent(ch[p], <<d, intervals[i]>>)
                                  = Cardinality(YieldOf(rows, d, intervals[i]))
                    /\ \A j \in 1..Len(ch[p]) :
                           ch[p][j].desc \in IntervalDescs =>
                               \E i \in 1..Len(rows) : ch[p][j].labels = <<rows[i].win>>

\* the row of "15 seconds" only: its four sub-values and nothing for the others
C9_Witness ==
    \E p \in Polls :
        /\ Built(p)
        /\ body[p] = RowText([win |-> "15 seconds", reqs |-> 2, rate |-> 1, bytes |-> 2,
                               mbps |-> 1])
        /\ \A d \in IntervalDescs :
               /\ <<d, "15 seconds">> \in Sent(ch[p])
               /\ <<d, "3 seconds">> \notin Sent(ch[p])
               /\ <<d, "60 seconds">> \notin Sent(ch[p])
        /\ ValuesOf(ch[p], <<"gwc_interval_requests", "15 seconds">>) = {1000}

C11_GroupingAnyLayout ==
    \A p \in Polls :
        Built(p) =>
            \A field \in IntegerFields, layout \in Layouts, count \in GroupedCounts :
                body[p] = CountText(field, layout, count) =>
                    ValuesOf(ch[p], <<field.desc, "">>)
                        = IF count.value >= 0 THEN {count.value} ELSE {}

\* C11 as amended: an integer field whose value stands in the cell after the
\* header cell of its label yields the value without its commas ("12,345" ->
\* 12345) and is absent when what is left is no integer of 64 bits (only
\* commas, 2^63 and more); a value that follows the label as plain text is not
\* matched and the field is absent.
C11_GroupingInCells ==
    \A p \in Polls :
        Built(p) =>
            \A field \in IntegerFields, layout \in Layouts, count \in GroupedCounts :
                body[p] = CountText(field, layout, count) =>
                    /\ ValuesOf(ch[p], <<field.desc, "">>)
                           = IF layout = "cell" /\ count.value >= 0 THEN {count.value}
                             ELSE {}
                    /\ TimesSent(ch[p], <<field.desc, "">>) <= 1

\* "12,345" in the cell of the requests total gave 12345
C11_Witness ==
    \E p \in Polls :
        /\ Built(p)
        /\ body[p] = ThRow("Total number of requests:", <<"1", "2", ",", "3", "4", "5">>)
        /\ ValuesOf(ch[p], <<"gwc_requests_total", "">>) = {12345}

(***************************************************************************)
(* C12.  Layout tolerance of the Started timestamp.                        *)
(***************************************************************************)
\* the seconds a stamp yields as started-at: none for no time and for the epoch
YieldsOf(stamp) == IF stamp.istime /\ stamp.unix > 0 THEN {stamp.unix} ELSE {}

\* C12 as stated: started-at is the value of the timestamp in the tight layout,
\* or, whenever the tight layout yields no value, that of the timestamp in the
\* loose layout, the same value for the same timestamp in either layout; it is
\* absent only when both layouts yield none.
C12_LooseWheneverNoValue ==
    \A p \in Polls :
        Built(p) =>
            \A tight, loose \in Stamps \cup {NoStamp}, tightFirst \in BOOLEAN :
                body[p] = StartedText(tight, loose, tightFirst) =>
                    ValuesOf(ch[p], <<"gwc_started_seconds", "">>)
                        = IF YieldsOf(tight) # {} THEN YieldsOf(tight) ELSE YieldsOf(loose)

\* C12 as amended: started-at is the value of the timestamp in the tight layout
\* when that is a time, or else that of the timestamp in the loose layout when
\* that is a time, the same value for the same timestamp in either layout; it
\* is absent when neither is a time and when the time taken is the Unix epoch,
\* in which case the other layout is not tried.
C12_LooseWhenNoTime ==
    \A p \in Polls :
        Built(p) =>
            \A tight, loose \in Stamps \cup {NoStamp}, tightFirst \in BOOLEAN :
                body[p] = StartedText(tight, loose, tightFirst) =>
                    /\ ValuesOf(ch[p], <<"gwc_started_seconds", "">>)
                           = IF tight.istime THEN YieldsOf(tight) ELSE YieldsOf(loose)
                    /\ TimesSent(ch[p], <<"gwc_started_seconds", "">>) <= 1

\* the tight layout holds no time (a day of one digit) and the loose one gave the
\* value
C12_Witness ==
    \E p \in Polls :
        /\ Built(p)
        /\ body[p] = ThRow("Started:", <<"Tue, 3 Feb 2026 10:00:00 GMT">>)
                     \o <<"Started:", " ", "Mon, 09 Feb 2026 08:30:00 GMT", "\n">>
        /\ ValuesOf(ch[p], <<"gwc_started_seconds", "">>) = {1770625800}

(***************************************************************************)
(* C13.  First match wins.                                                 *)
(***************************************************************************)
\* of two rows of an integer field the first gives the value (or its absence)
FirstCountWins ==
    \A p \in Polls :
        Built(p) =>
            \A field \in IntegerFields, first \in TwiceCounts, second \in TwiceCounts :
                body[p] = CountTwice(field, first, second) =>
                    ValuesOf(ch[p], <<field.desc, "">>)
                        = IF first.value >= 0 THEN {first.value} ELSE {}

\* of two durations in parentheses after "Started:" the first gives the uptime
FirstDurationWins ==
    \A p \in Polls :
        Built(p) =>
            \A first \in Durations, second \in Durations :
                body[p] = DurationTwice(first, second) =>
                    ValuesOf(ch[p], <<"gwc_uptime_seconds", "">>) = {first.secs}

\* C13 as stated: when the text has more than one occurrence of a field's label
\* and value, the value is that of the first occurrence; so for the integer
\* fields, and so for the uptime, which is the first duration in parentheses
\* after "Started:" also when later ones occur.
C13_FirstMatchWins == FirstCountWins /\ FirstDurationWins

(***************************************************************************)
(* C14.  Determinism.                                                      *)
(***************************************************************************)
\* the metrics of an output or of a statement, as a set
MetricsOf(out) == {out[i] : i \in 1..Len(out)}

\* C14: two polls that fetched the same text, in whatever order and interleaving
\* with each other and with other polls, have sent the same metrics with the same
\* values in the same order; and what a poll has sent is, as a set, liveness and
\* what each statement sends on the normalized text by itself, whatever the order
\* of the statements.
C14_Determinism ==
    /\ \A p, q \in Polls :
           p < q /\ Built(p) /\ Built(q) /\ body[p] = body[q] =>
               ch[p] = ch[q] /\ html[p] = html[q]
    /\ \A p \in Polls :
           Built(p) =>
               LET statements == SendRuntime(html[p]) \o SendMemcache(html[p])
               IN  MetricsOf(ch[p])
                       = {Metric("gwc_up", 1, <<>>)}
                         \cup UNION {MetricsOf(statements[i]) : i \in 1..Len(statements)}

\* two polls fetched the same text with values in it and sent the same
C14_Witness ==
    \E p, q \in Polls :
        /\ p # q /\ Built(p) /\ Built(q)
        /\ body[p] = body[q]
        /\ ch[p] = ch[q]
        /\ <<"gwc_requests_total", "">> \in Sent(ch[p])

(***************************************************************************)
(* C15.  Liveness once and first, no series twice.                         *)
(***************************************************************************)
\* the series of a metric with all its label values
FullSeriesOf(m) == <<m.desc, m.labels>>

\* C15: a poll that has ended, on whatever path, has sent liveness exactly once
\* and before any other metric, with value 1 only after status 200 and a complete
\* read of the body and with value 0 only when the fetch failed; a poll that has
\* not ended has sent nothing; and no output has two metrics of the same name and
\* label values.
C15_LivenessOnceAndFirst ==
    \A p \in Polls :
        /\ pc[p] \notin {"failed", "built"} => ch[p] = <<>>
        /\ pc[p] \in {"failed", "built"} =>
               /\ Len(ch[p]) >= 1
               /\ ch[p][1].desc = "gwc_up"
               /\ \A i \in 2..Len(ch[p]) : ch[p][i].desc # "gwc_up"
               /\ ch[p][1].value = IF Built(p) THEN 1 ELSE 0
               /\ ch[p][1].value = 1 =>
                      status[p] = 200 /\ body[p] # Undeclared /\ logged[p] = "nothing"
               /\ Cardinality({FullSeriesOf(ch[p][i]) : i \in 1..Len(ch[p])}) = Len(ch[p])

\* a poll sent liveness 1 first and then the four metrics of a window, another
\* sent liveness 0 alone after a status other than 200
C15_Witness ==
    \E p, q \in Polls :
        /\ Built(p) /\ ch[p][1] = Metric("gwc_up", 1, <<>>)
        /\ Cardinality({i \in 1..Len(ch[p]) : ch[p][i].labels = <<"3 seconds">>}) = 4
        /\ Failed(q) /\ ch[q] = <<Metric("gwc_up", 0, <<>>)>> /\ status[q] = 503

(***************************************************************************)
(* C16.  Zero is a value for the counts, gauges and ratios, and no value   *)
(* for started-at, the uptime and the two peak timestamps.                 *)
(***************************************************************************)
\* C16: a count, gauge or ratio whose text converts to 0 ("0", "0,000", "0.0",
\* ".0") is sent with value 0, as are the four cells of a window and the two
\* sizes of the cache, and is absent only when its text is no number; started-at
\* and the two peak timestamps are absent when the timestamp is no time, the Unix
\* epoch or earlier, and the uptime is absent when its whole seconds are 0 or
\* less ("0.5 seconds", "0 hours"); what stands with an absent timestamp in the
\* same row is sent as it is without the timestamp.
C16_ZeroSentinels ==
    \A p \in Polls :
        Built(p) =>
            /\ \A field \in CountFields, number \in ZeroCounts :
                   body[p] = FieldText(field, number) =>
                       /\ ValuesOf(ch[p], <<field.desc, "">>)
                              = IF number.value >= 0 THEN {number.value} ELSE {}
                       /\ TimesSent(ch[p], <<field.desc, "">>) <= 1
            /\ \A field \in FloatFields, number \in ZeroFloats :
                   body[p] = FieldText(field, number) =>
                       /\ ValuesOf(ch[p], <<field.desc, "">>)
                              = IF number.value >= 0 THEN {number.value} ELSE {}
                       /\ TimesSent(ch[p], <<field.desc, "">>) <= 1
            /\ \A field \in StampFields, stamp \in EarlyStamps :
                   body[p] = StampText(field, stamp) =>
                       /\ ValuesOf(ch[p], <<field.desc, "">>)
                              = IF stamp.istime /\ stamp.unix > 0 THEN {stamp.unix} ELSE {}
                       /\ TimesSent(ch[p], <<field.desc, "">>) <= 1
                       /\ field.desc = "gwc_peak_request_rate_timestamp_seconds" =>
                              ValuesOf(ch[p], <<"gwc_peak_request_rate_per_second", "">>) = {5000}
                       /\ field.desc = "gwc_peak_bandwidth_timestamp_seconds" =>
                              ValuesOf(ch[p], <<"gwc_peak_bandwidth_mbps", "">>) = {750}
            /\ \A mag \in ShortMagnitudes, unit \in ShortUnits :
                   body[p] = UptimeText(mag, unit, <<" ">>) =>
                       LET whole == (mag.milli * unit.secs) \div 1000
                       IN  /\ ValuesOf(ch[p], <<"gwc_uptime_seconds", "">>)
                                  = IF mag.milli >= 0 /\ whole > 0 THEN {whole} ELSE {}
                           /\ ValuesOf(ch[p], <<"gwc_started_seconds", "">>) = {1770717600}
            /\ body[p] = ZeroWindow =>
                   \A d \in IntervalDescs : ValuesOf(ch[p], <<d, "15 seconds">>) = {0}
            /\ body[p] = ZeroSizes =>
                   /\ ValuesOf(ch[p], <<"gwc_memcache_actual_size_bytes", "">>) = {0}
                   /\ ValuesOf(ch[p], <<"gwc_memcache_total_size_bytes", "">>) = {0}

\* the requests total of "0,000" was sent with value 0
C16_Witness ==
    \E p \in Polls :
        /\ Built(p)
        /\ body[p] = ThRow("Total number of requests:", <<"0", ",", "0", "0", "0">>)
        /\ ValuesOf(ch[p], <<"gwc_requests_total", "">>) = {0}

(***************************************************************************)
(* C17.  The two sizes of the in-memory cache.                             *)
(***************************************************************************)
\* the bytes of a pair of sizes: both, a megabyte being 1,000,000 bytes, or none
BytesOf(actual, total) ==
    IF actual.milli >= 0 /\ total.milli >= 0 THEN <<{actual.milli * 1000}, {total.milli * 1000}>>
    ELSE <<{}, {}>>
NoBytes == <<{}, {}>>
SizesSent(out) ==
    <<ValuesOf(out, <<"gwc_memcache_actual_size_bytes", "">>),
      ValuesOf(out, <<"gwc_memcache_total_size_bytes", "">>)>>

\* C17: with the cache block present, the actual and the total size are sent
\* both or not at all, each at most once: both, at the megabytes times 1,000,000,
\* when the pair stands in the cell of the label with a space before "Mb", or
\* else in the cell after it, and both texts are numbers; none when neither
\* layout has the pair or one of the two texts is no number, the pair in the
\* cell of the label being the one taken when both layouts have one.
C17_SizePairAllOrNothing ==
    \A p \in Polls :
        Built(p) =>
            /\ HasMarker(html[p]) =>
                   /\ (SizesSent(ch[p])[1] = {}) <=> (SizesSent(ch[p])[2] = {})
                   /\ TimesSent(ch[p], <<"gwc_memcache_actual_size_bytes", "">>) <= 1
                   /\ TimesSent(ch[p], <<"gwc_memcache_total_size_bytes", "">>) <= 1
            /\ \A actual \in Megabytes, total \in Megabytes, gap \in Gaps :
                   /\ body[p] = SegMarker \o SameCell(actual, total, gap) =>
                          SizesSent(ch[p]) = IF gap = <<" ">> THEN BytesOf(actual, total)
                                             ELSE NoBytes
                   /\ body[p] = SegMarker \o NextCell(actual, total, gap) =>
                          SizesSent(ch[p]) = BytesOf(actual, total)
            /\ \A same \in BothSizes, next \in BothSizes, gap \in Gaps :
                   body[p] \in {SegMarker \o SameCell(same, same, gap) \o NextCell(next, next, <<" ">>),
                                SegMarker \o NextCell(next, next, <<" ">>) \o SameCell(same, same, gap)}
                       => SizesSent(ch[p]) = IF gap = <<" ">> THEN BytesOf(same, same)
                                             ELSE BytesOf(next, next)
            /\ body[p] \in {SegMarker, SegMarker \o SegMemRequests} =>
                   SizesSent(ch[p]) = NoBytes

\* a poll sent both sizes, 12.5 Mb as 12,500,000 and 16 Mb as 16,000,000
C17_Witness ==
    \E p \in Polls :
        /\ Built(p)
        /\ body[p] = SegMarker \o NextCell([text |-> <<"1", "2", ".", "5">>, milli |-> 12500],
                                           [text |-> <<"1", "6">>, milli |-> 16000], <<" ">>)
        /\ SizesSent(ch[p]) = <<{12500000}, {16000000}>>

====
